---- MODULE Spec2Model ----
(***************************************************************************)
(* GymFlow Predictor (src/App.tsx, src/services/geminiService.ts).         *)
(*                                                                         *)
(* The model has four specifications over one set of variables:            *)
(*   SpecParse      parseCSV applied to bounded raw text batches           *)
(*   SpecAggregate  filteredData over bounded entry sets and day choices   *)
(*   SpecStats      localStats / stabilityPercentage / golden-hour display *)
(*                  over bounded hourly profiles                           *)
(*   Spec           the App component: ingestion cycles (fetchData), the   *)
(*                  AI analysis (runAiAnalysis), day selection             *)
(* Strings that the code parses are sequences of one-character strings.    *)
(***************************************************************************)
EXTENDS Integers, Sequences, FiniteSets, TLC

VARIABLES
    rawData,        \* App state: AforoEntry[] (a sequence of entries)
    lastSync,       \* App state: <<>> (null) or <<t>>, the time of the last sync
    isLoading,      \* App state
    error,          \* App state: NULL or an error message
    selectedDay,    \* App state
    prediction,     \* App state: NoPrediction or what analyzeGymData returned
    isAnalyzing,    \* App state
    fetchCalls,     \* the fetchData invocations: a sequence of call records
    aiCalls,        \* the runAiAnalysis invocations: a sequence of call records
    alerts,         \* number of alert() dialogs shown by runAiAnalysis
    csvText,        \* SpecParse: the raw text batch handed to parseCSV
    parsed,         \* SpecParse: [done, entries], the result of parseCSV
    profile,        \* SpecStats: the hourly profile handed to localStats
    stats,          \* SpecStats: [done, ...] the value of the localStats memo
    stability       \* SpecStats: [done, ...] the value of stabilityPercentage

vars == <<rawData, lastSync, isLoading, error, selectedDay, prediction,
          isAnalyzing, fetchCalls, aiCalls, alerts, csvText, parsed,
          profile, stats, stability>>

appVars == <<rawData, lastSync, isLoading, error, selectedDay, prediction,
             isAnalyzing, fetchCalls, aiCalls, alerts>>

parseVars == <<csvText, parsed>>

statsVars == <<profile, stats, stability>>

\* JavaScript's null for the string-valued state (error)
NULL == "null"

\* A JavaScript number that parseInt produced or array destructuring left
\* undefined: NaN and undefined behave alike in every use the code makes of
\* them (comparisons are false, arithmetic and new Date(...) give NaN).
NaN == [nan |-> TRUE, v |-> 0]

Num(n) == [nan |-> FALSE, v |-> n]

(***************************************************************************)
(* String primitives (String.prototype.*, parseInt, parseFloat)            *)
(***************************************************************************)
Digits == {"0", "1", "2", "3", "4", "5", "6", "7", "8", "9"}

DigitVal(c) ==
    CASE c = "0" -> 0 [] c = "1" -> 1 [] c = "2" -> 2 [] c = "3" -> 3
      [] c = "4" -> 4 [] c = "5" -> 5 [] c = "6" -> 6 [] c = "7" -> 7
      [] c = "8" -> 8 [] c = "9" -> 9

\* the characters String.prototype.trim removes
WhiteSpace == {" ", "\t", "\r", "\n"}

Drop(s, k) == SubSeq(s, k + 1, Len(s))

\* index of the first character of s that is in cs, 0 when there is none
FirstIn(s, cs) ==
    IF \E i \in 1..Len(s) : s[i] \in cs
    THEN CHOOSE i \in 1..Len(s) : s[i] \in cs /\ \A j \in 1..(i - 1) : s[j] \notin cs
    ELSE 0

\* s.split(sep) for a separator that is one character of the set seps
RECURSIVE Split(_, _)
Split(s, seps) ==
    LET i == FirstIn(s, seps)
    IN  IF i = 0 THEN <<s>>
        ELSE <<SubSeq(s, 1, i - 1)>> \o Split(Drop(s, i), seps)

\* text.split(/\r?\n/): a "\r" right before the "\n" belongs to the separator
SplitLines(text) ==
    LET pieces == Split(text, {"\n"})
        chop(p) == IF Len(p) > 0 /\ p[Len(p)] = "\r" THEN SubSeq(p, 1, Len(p) - 1) ELSE p
    IN  [k \in 1..Len(pieces) |-> IF k < Len(pieces) THEN chop(pieces[k]) ELSE pieces[k]]

RECURSIVE TrimStart(_)
TrimStart(s) ==
    IF Len(s) > 0 /\ s[1] \in WhiteSpace THEN TrimStart(Tail(s)) ELSE s

RECURSIVE TrimEnd(_)
TrimEnd(s) ==
    IF Len(s) > 0 /\ s[Len(s)] \in WhiteSpace THEN TrimEnd(SubSeq(s, 1, Len(s) - 1)) ELSE s

Trim(s) == TrimEnd(TrimStart(s))

Includes(s, c) == \E i \in 1..Len(s) : s[i] = c

\* s.replace(c, r) with a one-character pattern: the first occurrence only
ReplaceFirst(s, c, r) ==
    LET i == FirstIn(s, {c})
    IN  IF i = 0 THEN s ELSE SubSeq(s, 1, i - 1) \o r \o Drop(s, i)

\* c.replace(/^"|"$/g, ''): a leading quote and a trailing quote are removed
StripQuotes(s) ==
    LET a == IF Len(s) > 0 /\ s[1] = "\"" THEN Tail(s) ELSE s
    IN  IF Len(a) > 0 /\ a[Len(a)] = "\"" THEN SubSeq(a, 1, Len(a) - 1) ELSE a

\* the longest prefix of s made of digits
RECURSIVE DigitPrefix(_)
DigitPrefix(s) ==
    IF Len(s) > 0 /\ s[1] \in Digits THEN <<s[1]>> \o DigitPrefix(Tail(s)) ELSE <<>>

RECURSIVE DigitsValue(_)
DigitsValue(ds) ==
    IF Len(ds) = 0 THEN 0
    ELSE 10 * DigitsValue(SubSeq(ds, 1, Len(ds) - 1)) + DigitVal(ds[Len(ds)])

\* parseInt(s): leading white space, an optional sign, then decimal digits;
\* NaN when no digit follows
ParseInt(s) ==
    LET t    == TrimStart(s)
        neg  == Len(t) > 0 /\ t[1] = "-"
        body == IF Len(t) > 0 /\ t[1] \in {"-", "+"} THEN Tail(t) ELSE t
        ds   == DigitPrefix(body)
    IN  IF Len(ds) = 0 THEN NaN
        ELSE IF neg THEN Num(0 - DigitsValue(ds)) ELSE Num(DigitsValue(ds))

\* parseFloat(s) as a record [nan, neg, int, frac], frac the digits after the
\* decimal point; nan when neither an integer nor a fraction digit is read
ParseFloat(s) ==
    LET t    == TrimStart(s)
        neg  == Len(t) > 0 /\ t[1] = "-"
        body == IF Len(t) > 0 /\ t[1] \in {"-", "+"} THEN Tail(t) ELSE t
        ds   == DigitPrefix(body)
        rest == Drop(body, Len(ds))
        fs   == IF Len(rest) > 0 /\ rest[1] = "." THEN DigitPrefix(Tail(rest)) ELSE <<>>
    IN  [nan |-> Len(ds) = 0 /\ Len(fs) = 0, neg |-> neg,
         int |-> DigitsValue(ds), frac |-> fs]

\* Math.round of a parsed float: the nearest integer, a tie towards +Infinity
MathRoundFloat(x) ==
    IF x.nan THEN NaN
    ELSE LET f          == x.frac
             atLeastHalf == Len(f) > 0 /\ DigitVal(f[1]) >= 5
             aboveHalf   == /\ Len(f) > 0
                            /\ \/ DigitVal(f[1]) > 5
                               \/ /\ DigitVal(f[1]) = 5
                                  /\ \E i \in 2..Len(f) : f[i] # "0"
         IN  IF x.neg
             THEN Num(0 - (x.int + (IF aboveHalf THEN 1 ELSE 0)))
             ELSE Num(x.int + (IF atLeastHalf THEN 1 ELSE 0))

\* Math.round(p / q) for integers p >= 0, q > 0
MathRoundDiv(p, q) == (2 * p + q) \div (2 * q)

\* String.prototype.toLowerCase / toUpperCase on the letters of the weekday
\* names ("e-acute", "a-acute" stand for the accented letters)
LowerOf(c) ==
    CASE c = "L" -> "l" [] c = "M" -> "m" [] c = "J" -> "j" [] c = "V" -> "v"
      [] c = "S" -> "s" [] c = "D" -> "d" [] OTHER -> c

UpperOf(c) ==
    CASE c = "l" -> "L" [] c = "m" -> "M" [] c = "j" -> "J" [] c = "v" -> "V"
      [] c = "s" -> "S" [] c = "d" -> "D" [] OTHER -> c

ToLowerCase(s) == [i \in 1..Len(s) |-> LowerOf(s[i])]

\* name.charAt(0).toUpperCase() + name.slice(1)
Capitalize(s) == IF Len(s) = 0 THEN s ELSE <<UpperOf(s[1])>> \o Tail(s)

\* name.replace(/ss$/, 's')
DropDoubledS(s) ==
    IF Len(s) >= 2 /\ s[Len(s)] = "s" /\ s[Len(s) - 1] = "s"
    THEN SubSeq(s, 1, Len(s) - 1) ELSE s

(***************************************************************************)
(* Date: new Date(y, m, d, h, min) and Intl weekday formatting             *)
(***************************************************************************)
\* days from 1970-01-01 to the civil date y-m-d (m in 1..12), proleptic
\* Gregorian calendar
DaysFromCivil(y, m, d) ==
    LET yy  == IF m <= 2 THEN y - 1 ELSE y
        era == yy \div 400
        yoe == yy - era * 400
        mp  == (m + 9) % 12
        doy == (153 * mp + 2) \div 5 + d - 1
        doe == yoe * 365 + yoe \div 4 - yoe \div 100 + doy
    IN  era * 146097 + doe - 719468

\* new Date(year, monthIndex, day, hours, minutes) in local time: components
\* out of range carry over; any NaN component gives an Invalid Date, as does
\* a time outside +-100,000,000 days. The date is kept as the day number
\* and the minute of that day.
NewDate(y, mi, d, h, mn) ==
    IF y.nan \/ mi.nan \/ d.nan \/ h.nan \/ mn.nan
    THEN [valid |-> FALSE, day |-> 0, minute |-> 0]
    ELSE LET fy    == IF y.v >= 0 /\ y.v <= 99 THEN 1900 + y.v ELSE y.v
             ym    == fy + mi.v \div 12
             mo    == mi.v % 12
             mins  == h.v * 60 + mn.v
             day   == DaysFromCivil(ym, mo + 1, 1) + (d.v - 1) + mins \div 1440
         IN  [valid  |-> day >= -100000000 /\ day <= 100000000,
              day    |-> day,
              minute |-> mins % 1440]

\* Intl.DateTimeFormat('es-ES', { weekday: 'long' }) names, Sunday first
WeekdayNames ==
    << <<"d", "o", "m", "i", "n", "g", "o">>,
       <<"l", "u", "n", "e", "s">>,
       <<"m", "a", "r", "t", "e", "s">>,
       <<"m", "i", "e-acute", "r", "c", "o", "l", "e", "s">>,
       <<"j", "u", "e", "v", "e", "s">>,
       <<"v", "i", "e", "r", "n", "e", "s">>,
       <<"s", "a-acute", "b", "a", "d", "o">> >>

\* format(date) of a valid date; 1970-01-01 was a Thursday
WeekdayLong(date) == WeekdayNames[((date.day + 4) % 7) + 1]

(***************************************************************************)
(* parseCSV (src/App.tsx 40-71)                                            *)
(***************************************************************************)
\* a || 0 on a number: NaN and 0 are falsy
OrZero(x) == IF x.nan THEN 0 ELSE x.v

\* element k of an array of numbers, undefined (here NaN) past its end
At(a, k) == IF k <= Len(a) THEN a[k] ELSE NaN

\* the callback of lines.slice(1).map: <<>> stands for null, <<e>> for an entry
ParseRow(line, delimiter) ==
    LET rawCols == Split(line, {delimiter})
        columns == [k \in 1..Len(rawCols) |-> Trim(StripQuotes(rawCols[k]))]
    IN  IF Len(columns) < 3 THEN <<>>
        ELSE
        LET fechaStr     == columns[1]
            horaStr      == columns[2]
            occupancyStr == Trim(ReplaceFirst(ReplaceFirst(columns[3], "%", <<>>), ",", <<".">>))
            dateStrs     == Split(fechaStr, {"/", "-"})
            dateParts    == [k \in 1..Len(dateStrs) |-> ParseInt(dateStrs[k])]
            timeStrs     == Split(horaStr, {":"})
            timeParts    == [k \in 1..Len(timeStrs) |-> ParseInt(timeStrs[k])]
            d            == At(dateParts, 1)
            m            == At(dateParts, 2)
            y0           == At(dateParts, 3)
            y            == IF ~y0.nan /\ y0.v < 100 THEN Num(y0.v + 2000) ELSE y0
            hour         == At(timeParts, 1)
            min          == Num(OrZero(At(timeParts, 2)))
            mIndex       == IF m.nan THEN NaN ELSE Num(m.v - 1)
            date         == NewDate(y, mIndex, d, hour, min)
        IN  \* format() and toISOString() throw a RangeError on an Invalid Date
            IF ~date.valid THEN <<>>
            ELSE << [timestamp |-> <<date.day, date.minute>>,
                     occupancy |-> OrZero(MathRoundFloat(ParseFloat(occupancyStr))),
                     dayOfWeek |-> Capitalize(DropDoubledS(WeekdayLong(date))),
                     hour      |-> hour.v] >>

RECURSIVE FlatMapRows(_, _)
FlatMapRows(lines, delimiter) ==
    IF Len(lines) = 0 THEN <<>>
    ELSE ParseRow(Head(lines), delimiter) \o FlatMapRows(Tail(lines), delimiter)

parseCSV(text) ==
    LET lines == SelectSeq(SplitLines(text), LAMBDA line : Trim(line) # <<>>)
    IN  IF Len(lines) <= 1 THEN <<>>
        ELSE LET delimiter == IF Includes(lines[1], ";") THEN ";" ELSE ","
             IN  SelectSeq(FlatMapRows(Tail(lines), delimiter),
                           LAMBDA e : e.occupancy > 2)

(***************************************************************************)
(* Array helpers                                                           *)
(***************************************************************************)
\* the sort key of x: x itself for a number (field "self"), else its field f
KeyOf(x, f) == IF f = "self" THEN x ELSE x[f]

\* x inserted into the sorted sequence s after every element whose key is
\* not greater: Array.prototype.sort is stable
RECURSIVE InsertByKey(_, _, _)
InsertByKey(x, s, f) ==
    IF Len(s) = 0 THEN <<x>>
    ELSE IF KeyOf(Head(s), f) <= KeyOf(x, f) THEN <<Head(s)>> \o InsertByKey(x, Tail(s), f)
    ELSE <<x>> \o s

\* [...a].sort((p, q) => p.f - q.f)
RECURSIVE SortByKey(_, _)
SortByKey(s, f) ==
    IF Len(s) = 0 THEN <<>>
    ELSE InsertByKey(s[Len(s)], SortByKey(SubSeq(s, 1, Len(s) - 1), f), f)

RECURSIVE SumSeq(_)
SumSeq(s) == IF Len(s) = 0 THEN 0 ELSE Head(s) + SumSeq(Tail(s))

\* the distinct values of s in the order of their first occurrence
RECURSIVE Distinct(_)
Distinct(s) ==
    IF Len(s) = 0 THEN <<>>
    ELSE LET front == Distinct(SubSeq(s, 1, Len(s) - 1))
             x     == s[Len(s)]
         IN  IF \E i \in 1..Len(front) : front[i] = x THEN front ELSE Append(front, x)

\* Object.keys of an object with the number keys ks (given in insertion
\* order): the non-negative integer keys ascending, then the others in
\* insertion order
ObjectKeys(ks) ==
    SortByKey(SelectSeq(ks, LAMBDA k : k >= 0), "self")
        \o SelectSeq(ks, LAMBDA k : k < 0)

\* String(n) of an integer
RECURSIVE NatToChars(_)
NatToChars(n) ==
    LET c == CHOOSE ch \in Digits : DigitVal(ch) = n % 10
    IN  IF n < 10 THEN <<c>> ELSE NatToChars(n \div 10) \o <<c>>

IntToChars(n) == IF n < 0 THEN <<"-">> \o NatToChars(0 - n) ELSE NatToChars(n)

(***************************************************************************)
(* filteredData (src/App.tsx 100-113)                                      *)
(***************************************************************************)
\* the filter's test: d.dayOfWeek.toLowerCase() === selectedDay.toLowerCase()
SameDayIgnoringDay(a, b) == TRUE

SameDay(a, b) == ToLowerCase(a) = ToLowerCase(b)

FilteredData(data, day) ==
    LET dayData == SelectSeq(data, LAMBDA d : SameDay(d.dayOfWeek, day))
        \* hourlyMap[h]: the occupancies pushed for hour h, in order
        hourlyMap(h) ==
            LET at == SelectSeq(dayData, LAMBDA d : d.hour = h)
            IN  [k \in 1..Len(at) |-> at[k].occupancy]
        keys == ObjectKeys(Distinct([k \in 1..Len(dayData) |-> dayData[k].hour]))
        points == [k \in 1..Len(keys) |->
                     [timestamp |-> <<>>,
                      dayOfWeek |-> day,
                      hour      |-> ParseInt(IntToChars(keys[k])).v,
                      occupancy |-> MathRoundDiv(SumSeq(hourlyMap(keys[k])),
                                                 Len(hourlyMap(keys[k])))]]
    IN  SortByKey(points, "hour")

filteredData == FilteredData(rawData, selectedDay)

(***************************************************************************)
(* localStats, stabilityPercentage (src/App.tsx 115-145)                   *)
(***************************************************************************)
\* Math.round(Math.sqrt(p / q)) for integers p >= 0, q > 0: the least k
\* from k upwards with sqrt(p / q) < k + 1/2
RECURSIVE RoundSqrtFrom(_, _, _)
RoundSqrtFrom(p, q, k) ==
    IF 4 * p < (2 * k + 1) * (2 * k + 1) * q THEN k ELSE RoundSqrtFrom(p, q, k + 1)

\* a || 14 on an hour: 0 and undefined are falsy
FallbackHour == 14

\* Math.floor(values.length / 2), Math.floor(values.length * 0.25)
MedianIndexLowerMiddle(n) == (n - 1) \div 2

MedianIndex(n) == n \div 2

P25Index(n) == n \div 4

BestHourOf(sortedByOcc) ==
    IF Len(sortedByOcc) = 0 \/ sortedByOcc[1].hour = 0
    THEN FallbackHour ELSE sortedByOcc[1].hour

LocalStats(fd) ==
    IF Len(fd) = 0 THEN [null |-> TRUE]
    ELSE
    LET values      == SortByKey([k \in 1..Len(fd) |-> fd[k].occupancy], "self")
        n           == Len(values)
        meanValue   == MathRoundDiv(SumSeq(values), n)
        medianValue == values[MedianIndex(n) + 1]
        p25Value    == values[P25Index(n) + 1]
        squareDiffs == [k \in 1..n |-> (values[k] - meanValue) * (values[k] - meanValue)]
        stdDevValue == RoundSqrtFrom(SumSeq(squareDiffs), n, 0)
        sortedByOcc == SortByKey(fd, "occupancy")
        bestHour    == BestHourOf(sortedByOcc)
        nextHour    == SelectSeq(fd, LAMBDA f : f.hour = bestHour + 1)
        nextOcc     == IF Len(nextHour) = 0 THEN 0 ELSE nextHour[1].occupancy
        trendDir    == IF nextOcc > sortedByOcc[1].occupancy THEN "up" ELSE "down"
        nonExactHour == IntToChars(bestHour)
                          \o (IF trendDir = "up" THEN <<":", "1", "5">> ELSE <<":", "4", "5">>)
    IN  [null   |-> FALSE,
         mean   |-> meanValue,
         median |-> medianValue,
         p25    |-> p25Value,
         stdDev |-> stdDevValue,
         max    |-> values[n],
         min    |-> values[1],
         golden |-> nonExactHour]

localStats == LocalStats(filteredData)

Max2(a, b) == IF a >= b THEN a ELSE b

Min2(a, b) == IF a <= b THEN a ELSE b

StabilityPercentage(ls) ==
    IF ls.null THEN 0 ELSE Max2(0, Min2(100, 100 - ls.stdDev * 2))

stabilityPercentage == StabilityPercentage(localStats)

(***************************************************************************)
(* Raw text batches for SpecParse: a header line and up to MaxRows rows    *)
(***************************************************************************)
MaxRows == 2

RowNames == {"rGood", "rShortYear", "rNight", "rDateOver", "rBadDate", "rBadTime",
             "rTimeOver", "rShort", "rNonNum", "rNoise", "rQuoted", "rSemi", "rBlank"}

RowText(r) ==
    CASE r = "rGood" -> \* 15/01/2024,10:30,45%   (a Monday, 10:30, 45 %)
         <<"1", "5", "/", "0", "1", "/", "2", "0", "2", "4", ",", "1", "0", ":", "3", "0", ",", "4", "5", "%">>
      [] r = "rShortYear" -> \* 16/01/24,07:10,12.5   (two-digit year, a Tuesday, 12.5 rounds to 13)
         <<"1", "6", "/", "0", "1", "/", "2", "4", ",", "0", "7", ":", "1", "0", ",", "1", "2", ".", "5">>
      [] r = "rNight" -> \* 16/01/2024,03:00,150%   (03:00 and 150 %)
         <<"1", "6", "/", "0", "1", "/", "2", "0", "2", "4", ",", "0", "3", ":", "0", "0", ",", "1", "5", "0", "%">>
      [] r = "rDateOver" -> \* 32/13/2024,10:00,50   (day 32 of month 13)
         <<"3", "2", "/", "1", "3", "/", "2", "0", "2", "4", ",", "1", "0", ":", "0", "0", ",", "5", "0">>
      [] r = "rBadDate" -> \* ab/01/2024,10:00,50   (unparsable day)
         <<"a", "b", "/", "0", "1", "/", "2", "0", "2", "4", ",", "1", "0", ":", "0", "0", ",", "5", "0">>
      [] r = "rBadTime" -> \* 15/01/2024,xx:00,50   (unparsable hour)
         <<"1", "5", "/", "0", "1", "/", "2", "0", "2", "4", ",", "x", "x", ":", "0", "0", ",", "5", "0">>
      [] r = "rTimeOver" -> \* 15/01/2024,25:70,50   (hour 25, minute 70)
         <<"1", "5", "/", "0", "1", "/", "2", "0", "2", "4", ",", "2", "5", ":", "7", "0", ",", "5", "0">>
      [] r = "rShort" -> \* 15/01/2024,10:00   (two fields)
         <<"1", "5", "/", "0", "1", "/", "2", "0", "2", "4", ",", "1", "0", ":", "0", "0">>
      [] r = "rNonNum" -> \* 15/01/2024,10:00,abc   (non-numeric occupancy)
         <<"1", "5", "/", "0", "1", "/", "2", "0", "2", "4", ",", "1", "0", ":", "0", "0", ",", "a", "b", "c">>
      [] r = "rNoise" -> \* 15/01/2024,10:00,2.4%   (2.4 rounds to 2, the noise floor)
         <<"1", "5", "/", "0", "1", "/", "2", "0", "2", "4", ",", "1", "0", ":", "0", "0", ",", "2", ".", "4", "%">>
      [] r = "rQuoted" -> \* '15-01-2024','00:30','30'   (quoted fields, dashes, hour 0)
         <<"\"", "1", "5", "-", "0", "1", "-", "2", "0", "2", "4", "\"", ",", "\"", "0", "0", ":", "3", "0", "\"", ",", "\"", "3", "0", "\"">>
      [] r = "rSemi" -> \* 15/01/2024;09:15;12,5%   (semicolons and a decimal comma)
         <<"1", "5", "/", "0", "1", "/", "2", "0", "2", "4", ";", "0", "9", ":", "1", "5", ";", "1", "2", ",", "5", "%">>
      [] r = "rBlank" -> \*      (a blank line)
         <<" ", " ">>

HeaderText(delimiter) ==
    IF delimiter = ";"
    THEN <<"F", "e", "c", "h", "a", ";", "H", "o", "r", "a", ";", "A", "f", "o", "r", "o">>
    ELSE <<"F", "e", "c", "h", "a", ",", "H", "o", "r", "a", ",", "A", "f", "o", "r", "o">>

EolText(eol) == IF eol = "CRLF" THEN <<"\r", "\n">> ELSE <<"\n">>

RECURSIVE JoinRows(_, _)
JoinRows(rows, eol) ==
    IF Len(rows) = 0 THEN <<>>
    ELSE EolText(eol) \o RowText(Head(rows)) \o JoinRows(Tail(rows), eol)

\* the text of a batch [header, eol, rows]
BatchText(b) == HeaderText(b.header) \o JoinRows(b.rows, b.eol)

Batches ==
    [header : {",", ";"}, eol : {"LF", "CRLF"},
     rows : UNION {[1..n -> RowNames] : n \in 0..MaxRows}]

\* the App component right after construction (src/App.tsx 29-38), before
\* the mount effect has run
DayNames == {Capitalize(DropDoubledS(WeekdayNames[i])) : i \in 1..7}

NoPrediction == [kind |-> "null"]

AppConstructed ==
    /\ rawData = <<>>
    /\ lastSync = <<>>
    /\ isLoading = TRUE
    /\ error = NULL
    /\ prediction = NoPrediction
    /\ isAnalyzing = FALSE
    /\ fetchCalls = <<>>
    /\ aiCalls = <<>>
    /\ alerts = 0

ParseIdle ==
    /\ csvText = [header |-> ",", eol |-> "LF", rows |-> <<>>]
    /\ parsed = [done |-> FALSE, entries |-> <<>>]

StatsIdle ==
    /\ profile = <<>>
    /\ stats = [done |-> FALSE]
    /\ stability = [done |-> FALSE]

InitParse ==
    /\ AppConstructed
    /\ selectedDay = Capitalize(WeekdayNames[2])
    /\ StatsIdle
    /\ csvText \in Batches
    /\ parsed = [done |-> FALSE, entries |-> <<>>]

\* parseCSV applied to the text of the batch
Parse ==
    /\ ~parsed.done
    /\ parsed' = [done |-> TRUE, entries |-> parseCSV(BatchText(csvText))]
    /\ UNCHANGED <<csvText, appVars, statsVars>>

NextParse == Parse

SpecParse == InitParse /\ [][NextParse]_vars

(***************************************************************************)
(* The golden-hour card (src/App.tsx 222) and JSON values                  *)
(***************************************************************************)
\* JavaScript values that JSON.parse can put in a field
Str(chars) == [t |-> "string", s |-> chars]

Number(n) == [t |-> "number", n |-> n]

Truthy(x) ==
    CASE x.t = "string" -> x.s # <<>>
      [] x.t = "number" -> x.n # 0
      [] OTHER -> FALSE

\* obj?.field: undefined when obj is null or lacks the field
Field(obj, f) == IF f \in DOMAIN obj THEN obj[f] ELSE [t |-> "undefined"]

Placeholder == <<"-", "-", ":", "-", "-">>

\* {prediction?.goldenHour || localStats?.golden || '--:--'}
HoraDeOro(pred, ls) ==
    IF Truthy(Field(pred, "goldenHour")) THEN Field(pred, "goldenHour")
    ELSE IF ~ls.null /\ ls.golden # <<>> THEN Str(ls.golden)
    ELSE Str(Placeholder)

\* the Prediccion IA panel (src/App.tsx 302-334): the AI texts when
\* prediction is truthy, else the neutral text
PrediccionIA(pred, analyzing) ==
    IF pred.kind # "null"
    THEN [shows |-> "ai",
          recommendation |-> Field(pred, "recommendation"),
          analysis |-> Field(pred, "analysis")]
    ELSE [shows |-> IF analyzing THEN "calculando" ELSE "pulsa analizar"]

(***************************************************************************)
(* SpecAggregate: filteredData over bounded entry sets                     *)
(***************************************************************************)
MaxEntries == 4

Lunes == Capitalize(WeekdayNames[2])

Martes == Capitalize(WeekdayNames[3])

\* an entry as parseCSV builds it for the given weekday (0 = the Monday
\* 15/01/2024), hour and occupancy
EntryAt(dayOffset, hour, occ) ==
    LET date == NewDate(Num(2024), Num(0), Num(15 + dayOffset), Num(hour), Num(0))
    IN  [timestamp |-> <<date.day, date.minute>>,
         occupancy |-> occ,
         dayOfWeek |-> Capitalize(DropDoubledS(WeekdayLong(date))),
         hour      |-> hour]

EntryPool == {EntryAt(o, h, occ) : o \in {0, 1}, h \in {0, 7}, occ \in {3, 10}}

InitAggregate ==
    /\ lastSync = <<"Date">>
    /\ isLoading = FALSE
    /\ error = NULL
    /\ prediction = NoPrediction
    /\ isAnalyzing = FALSE
    /\ fetchCalls = <<>>
    /\ aiCalls = <<>>
    /\ alerts = 0
    /\ ParseIdle
    /\ StatsIdle
    /\ rawData \in UNION {[1..n -> EntryPool] : n \in 1..MaxEntries}
    /\ selectedDay \in DayNames

\* onChange of the day <select> (src/App.tsx 227-233)
SelectDay(d) ==
    /\ error = NULL
    /\ selectedDay' = d
    /\ UNCHANGED <<rawData, lastSync, isLoading, error, prediction, isAnalyzing,
                   fetchCalls, aiCalls, alerts, parseVars, statsVars>>

NextAggregate == \E d \in DayNames : SelectDay(d)

SpecAggregate == InitAggregate /\ [][NextAggregate]_vars

(***************************************************************************)
(* SpecStats: localStats and stabilityPercentage over bounded profiles     *)
(***************************************************************************)
MaxPoints == 4

ProfileHours == {0, 1, 7, 8, 14, 15}

ProfileOccupancies == {10, 20, 30, 40}

\* the profile with the points of f (a function from hours to occupancies),
\* as filteredData returns it: ascending by hour
RECURSIVE ProfileOf(_, _)
ProfileOf(f, day) ==
    IF DOMAIN f = {} THEN <<>>
    ELSE LET h    == CHOOSE x \in DOMAIN f : \A z \in DOMAIN f : x <= z
             rest == [z \in DOMAIN f \ {h} |-> f[z]]
         IN  <<[timestamp |-> <<>>, dayOfWeek |-> day, hour |-> h, occupancy |-> f[h]]>>
                 \o ProfileOf(rest, day)

Profiles ==
    UNION { {ProfileOf(f, Lunes) : f \in [Hs -> ProfileOccupancies]} :
            Hs \in {S \in SUBSET ProfileHours : Cardinality(S) <= MaxPoints} }

InitStats ==
    /\ AppConstructed
    /\ selectedDay = Lunes
    /\ ParseIdle
    /\ profile \in Profiles
    /\ stats = [done |-> FALSE]
    /\ stability = [done |-> FALSE]

\* the localStats memo is evaluated for the profile
LocalStatsMemo ==
    /\ ~stats.done
    /\ stats' = [done |-> TRUE, value |-> LocalStats(profile)]
    /\ UNCHANGED <<profile, stability, appVars, parseVars>>

\* the stabilityPercentage memo is evaluated for the localStats value
StabilityMemo ==
    /\ stats.done
    /\ ~stability.done
    /\ stability' = [done |-> TRUE, value |-> StabilityPercentage(stats.value)]
    /\ UNCHANGED <<profile, stats, appVars, parseVars>>

NextStats == LocalStatsMemo \/ StabilityMemo

SpecStats == InitStats /\ [][NextStats]_vars

(***************************************************************************)
(* Spec: the App component (src/App.tsx 73-98, 147-158, 160-198)           *)
(***************************************************************************)
MaxFetches == 2

MaxAnalyses == 2

ConnectError == "Fallo al conectar con Google Sheets"

NoDataError == "No hay datos disponibles en el archivo"

\* the bodies the sheet can answer with: two batches with valid rows and one
\* whose only row is rejected
SheetBodies ==
    { [header |-> ",", eol |-> "CRLF", rows |-> <<"rGood", "rShortYear">>],
      [header |-> ",", eol |-> "LF",   rows |-> <<"rQuoted", "rBadDate">>],
      [header |-> ",", eol |-> "LF",   rows |-> <<"rNonNum">>] }

\* fetchData up to its first await: setIsLoading(true), then fetch(...)
FetchStart ==
    /\ Len(fetchCalls) < MaxFetches
    /\ isLoading' = TRUE
    /\ fetchCalls' = Append(fetchCalls,
                            [pc |-> "awaitFetch", outcome |-> "pending", body |-> <<>>])
    /\ UNCHANGED <<rawData, lastSync, error, selectedDay, prediction, isAnalyzing,
                   aiCalls, alerts, parseVars, statsVars>>

\* the mount effect: fetchData() and setInterval(fetchData, 180000)
Mount ==
    /\ Len(fetchCalls) = 0
    /\ FetchStart

\* the interval fires
TimerFires ==
    /\ Len(fetchCalls) > 0
    /\ FetchStart

\* the refresh button of the main screen, rendered while error is null
RefreshClick ==
    /\ Len(fetchCalls) > 0
    /\ error = NULL
    /\ FetchStart

\* the Reintentar button of the error screen
RetryClick ==
    /\ error # NULL
    /\ FetchStart

\* catch (err) { setError(...) }
FetchCatchClearingData ==
    /\ error' = ConnectError
    /\ rawData' = <<>>
    /\ UNCHANGED lastSync

FetchCatch ==
    /\ error' = ConnectError
    /\ UNCHANGED <<rawData, lastSync>>

\* the fetch promise of call c settles: it rejects, or resolves with a
\* response whose ok is false (throw, catch, finally), or with an ok response
\* (await response.text())
FetchSettles(c, how) ==
    /\ fetchCalls[c].pc = "awaitFetch"
    /\ IF how = "ok"
       THEN /\ fetchCalls' = [fetchCalls EXCEPT ![c].pc = "awaitText"]
            /\ UNCHANGED <<rawData, lastSync, error, isLoading>>
       ELSE /\ FetchCatch
            /\ isLoading' = FALSE
            /\ fetchCalls' = [fetchCalls EXCEPT ![c].pc = "done", ![c].outcome = "failed"]
    /\ UNCHANGED <<selectedDay, prediction, isAnalyzing, aiCalls, alerts,
                   parseVars, statsVars>>

\* response.text() of call c rejects: catch, finally
TextRejects(c) ==
    /\ fetchCalls[c].pc = "awaitText"
    /\ FetchCatch
    /\ isLoading' = FALSE
    /\ fetchCalls' = [fetchCalls EXCEPT ![c].pc = "done", ![c].outcome = "failed"]
    /\ UNCHANGED <<selectedDay, prediction, isAnalyzing, aiCalls, alerts,
                   parseVars, statsVars>>

\* parseCSV of each body the sheet can answer with
ParsedBody == [b \in SheetBodies |-> parseCSV(BatchText(b))]

\* response.text() of call c resolves with the body b: parseCSV, then the
\* dataset is replaced or the no-data error is set; finally
\* setRawData(parsed): the stored entries are replaced as a whole
StoreParsed(parsedRows) ==
    rawData' = parsedRows

TextResolves(c, b) ==
    /\ fetchCalls[c].pc = "awaitText"
    /\ LET parsedRows == ParsedBody[b]
       IN  IF Len(parsedRows) > 0
           THEN /\ StoreParsed(parsedRows)
                /\ lastSync' = <<"Date">>
                /\ error' = NULL
                /\ fetchCalls' = [fetchCalls EXCEPT ![c].pc = "done",
                                                    ![c].outcome = "stored",
                                                    ![c].body = <<b>>]
           ELSE /\ error' = NoDataError
                /\ fetchCalls' = [fetchCalls EXCEPT ![c].pc = "done",
                                                    ![c].outcome = "empty",
                                                    ![c].body = <<b>>]
                /\ UNCHANGED <<rawData, lastSync>>
    /\ isLoading' = FALSE
    /\ UNCHANGED <<selectedDay, prediction, isAnalyzing, aiCalls, alerts,
                   parseVars, statsVars>>

(***************************************************************************)
(* runAiAnalysis and analyzeGymData (src/services/geminiService.ts)        *)
(***************************************************************************)
ValidStatistics ==
    [mean |-> Number(30), median |-> Number(30), percentile25 |-> Number(13),
     stdDev |-> Number(5), max |-> Number(45), min |-> Number(13),
     bestHour |-> Str(<<"1", "4">>), trend |-> Str(<<"d", "o", "w", "n">>)]

ValidResult ==
    [kind |-> "object",
     recommendation |-> Str(<<"r">>),
     goldenHour |-> Str(<<"1", "4", ":", "2", "5">>),
     analysis |-> Str(<<"a">>),
     statistics |-> ValidStatistics]

\* the response texts of the model
ResponseTexts == {"empty", "garbage", "null", "valid",
                  "noGoldenHour", "emptyGoldenHour", "numericGoldenHour"}

\* if (!text) throw ...
TextFalsy(text) == text = "empty"

\* JSON.parse(text): [ok |-> FALSE] when it throws a SyntaxError
JSONParse(text) ==
    CASE text = "valid" -> [ok |-> TRUE, value |-> ValidResult]
      [] text = "null" -> [ok |-> TRUE, value |-> NoPrediction]
      [] text = "noGoldenHour" ->
            [ok |-> TRUE,
             value |-> [kind |-> "object", recommendation |-> Str(<<"r">>),
                        analysis |-> Str(<<"a">>), statistics |-> ValidStatistics]]
      [] text = "emptyGoldenHour" ->
            [ok |-> TRUE, value |-> [ValidResult EXCEPT !.goldenHour = Str(<<>>)]]
      [] text = "numericGoldenHour" ->
            [ok |-> TRUE, value |-> [ValidResult EXCEPT !.goldenHour = Number(14)]]
      [] OTHER -> [ok |-> FALSE]

\* the try block of analyzeGymData (66-73): [ok |-> FALSE] when it throws
AnalyzeResult(text) ==
    IF TextFalsy(text) THEN [ok |-> FALSE] ELSE JSONParse(text)

\* the analyze button (disabled={isAnalyzing || rawData.length === 0}):
\* runAiAnalysis up to its await
\* a variant of the button's disabled attribute that ignores isAnalyzing
AnalyzeDisabledOnlyWhenEmpty ==
    Len(rawData) = 0

\* disabled={isAnalyzing || rawData.length === 0}: a disabled button
\* dispatches no click, so runAiAnalysis does not run
AnalyzeDisabled ==
    isAnalyzing \/ Len(rawData) = 0

AnalyzeClick ==
    /\ error = NULL
    /\ ~AnalyzeDisabled
    /\ Len(aiCalls) < MaxAnalyses
    /\ isAnalyzing' = TRUE
    /\ aiCalls' = Append(aiCalls, [pc |-> "awaitModel", outcome |-> "pending",
                                   day |-> selectedDay])
    /\ UNCHANGED <<rawData, lastSync, isLoading, error, selectedDay, prediction,
                   fetchCalls, alerts, parseVars, statsVars>>

\* a variant of the catch path without the finally block
AnalysisFailsStayingBusy(c) ==
    /\ alerts' = alerts + 1
    /\ isAnalyzing' = isAnalyzing
    /\ aiCalls' = [aiCalls EXCEPT ![c].pc = "done", ![c].outcome = "failed"]
    /\ UNCHANGED prediction

\* catch (e) { console.error(...); alert(...) } finally { setIsAnalyzing(false) }
\* (alert is modal: no other handler runs between the catch and the finally)
AnalysisFails(c) ==
    /\ alerts' = alerts + 1
    /\ isAnalyzing' = FALSE
    /\ aiCalls' = [aiCalls EXCEPT ![c].pc = "done", ![c].outcome = "failed"]
    /\ UNCHANGED prediction

\* generateContent of call c rejects (the await is outside the try block of
\* analyzeGymData; runAiAnalysis catches)
ModelRejects(c) ==
    /\ aiCalls[c].pc = "awaitModel"
    /\ AnalysisFails(c)
    /\ UNCHANGED <<rawData, lastSync, isLoading, error, selectedDay, fetchCalls,
                   parseVars, statsVars>>

\* generateContent of call c resolves with a response whose text is `text`
ModelResolves(c, text) ==
    /\ aiCalls[c].pc = "awaitModel"
    /\ LET res == AnalyzeResult(text)
       IN  IF res.ok
           THEN /\ prediction' = res.value
                /\ isAnalyzing' = FALSE
                /\ aiCalls' = [aiCalls EXCEPT ![c].pc = "done", ![c].outcome = "stored"]
                /\ UNCHANGED alerts
           ELSE AnalysisFails(c)
    /\ UNCHANGED <<rawData, lastSync, isLoading, error, selectedDay, fetchCalls,
                   parseVars, statsVars>>

\* the days the model selects among (the <select> offers all seven)
SelectableDays == {Lunes, Martes}

Init ==
    /\ AppConstructed
    /\ selectedDay \in SelectableDays
    /\ ParseIdle
    /\ StatsIdle

Next ==
    \/ Mount
    \/ TimerFires
    \/ RefreshClick
    \/ RetryClick
    \/ \E c \in 1..Len(fetchCalls), how \in {"reject", "notOk", "ok"} : FetchSettles(c, how)
    \/ \E c \in 1..Len(fetchCalls) : TextRejects(c)
    \/ \E c \in 1..Len(fetchCalls), b \in SheetBodies : TextResolves(c, b)
    \/ \E d \in SelectableDays : SelectDay(d)
    \/ AnalyzeClick
    \/ \E c \in 1..Len(aiCalls) : ModelRejects(c)
    \/ \E c \in 1..Len(aiCalls), text \in ResponseTexts : ModelResolves(c, text)

Spec == Init /\ [][Next]_vars

\* an outstanding generateContent promise settles and the continuation of
\* runAiAnalysis after its await runs
AnalysisSettles ==
    \E c \in 1..Len(aiCalls) :
        \/ ModelRejects(c)
        \/ \E text \in ResponseTexts : ModelResolves(c, text)

\* Spec with the external call assumed to settle: a promise that settles has
\* its continuation queued as a microtask, which the event loop always runs
SpecSettling == Init /\ [][Next]_vars /\ WF_vars(AnalysisSettles)

(***************************************************************************)
(* Properties of parseCSV (model-checked under SpecParse)                  *)
(***************************************************************************)
\* C1: every entry that parseCSV retains has an integer occupancy in
\* [0, 100] and an integer hour inside the operating window 7:10-22:50
\* (hours 7..22), whatever numbers the row's time and percentage fields hold.
C1_RetainedInRange ==
    parsed.done =>
        \A i \in 1..Len(parsed.entries) :
            /\ parsed.entries[i].occupancy \in 0..100
            /\ parsed.entries[i].hour \in 7..22

\* the rows of the catalogue that C2 calls malformed under a header's
\* delimiter: unparsable or out-of-range date, unparsable or out-of-range
\* time, fewer than 3 fields, non-numeric occupancy
MalformedRow(r, delimiter) ==
    \/ r \in {"rBadDate", "rDateOver"}
    \/ r \in {"rBadTime", "rTimeOver"}
    \/ r = "rShort"
    \/ r = "rNonNum"
    \/ Len(Split(RowText(r), {delimiter})) < 3

WithoutMalformed(b) ==
    [b EXCEPT !.rows = SelectSeq(b.rows, LAMBDA r : ~MalformedRow(r, b.header))]

\* C2: each malformed row of a batch yields no entry and every other row
\* still yields its entry: the batch parses to what it parses to with its
\* malformed rows removed.
C2_MalformedRowsSkipped ==
    parsed.done =>
        parsed.entries = parseCSV(BatchText(WithoutMalformed(csvText)))

(***************************************************************************)
(* Properties of localStats (model-checked under SpecStats)                *)
(***************************************************************************)
ProfileValues == {profile[k].occupancy : k \in 1..Len(profile)}

MinOccupancy == CHOOSE v \in ProfileValues : \A w \in ProfileValues : v <= w

\* C3: for a non-empty profile the golden hour is H:15 or H:45 for an hour H
\* of the profile whose occupancy is the minimum (hour 0 included); it is
\* H:15 exactly when the profile has a point for H+1 with an occupancy
\* strictly above the minimum, H:45 otherwise.
C3_GoldenHourOfMinimum ==
    (stats.done /\ Len(profile) > 0) =>
        \E k \in 1..Len(profile) :
            /\ profile[k].occupancy = MinOccupancy
            /\ LET H      == profile[k].hour
                   rising == \E j \in 1..Len(profile) :
                                 /\ profile[j].hour = H + 1
                                 /\ profile[j].occupancy > MinOccupancy
               IN  stats.value.golden =
                       IntToChars(H) \o (IF rising THEN <<":", "1", "5">>
                                                   ELSE <<":", "4", "5">>)

\* the element at 0-based index k of the ascending order of the profile's
\* occupancies: fewer than k+1 points lie below it, at least k+1 at or below
AtSortedIndex(k, v) ==
    /\ v \in ProfileValues
    /\ Cardinality({j \in 1..Len(profile) : profile[j].occupancy < v}) <= k
    /\ Cardinality({j \in 1..Len(profile) : profile[j].occupancy <= v}) > k

ProfileSum == SumSeq([k \in 1..Len(profile) |-> profile[k].occupancy])

SquaresAround(m) ==
    SumSeq([k \in 1..Len(profile) |-> (profile[k].occupancy - m) * (profile[k].occupancy - m)])

\* C4: for a non-empty profile of n points with ascending occupancies s,
\* mean = round(sum/n), median = s[floor(n/2)], p25 = s[floor(n/4)] and
\* stdDev = round(sqrt(sum((v - mean)^2)/n)) against the rounded mean.
C4_SummaryStatistics ==
    (stats.done /\ Len(profile) > 0) =>
        LET n  == Len(profile)
            st == stats.value
            sq == SquaresAround(st.mean)
        IN  /\ ~st.null
            \* mean - 1/2 <= sum/n < mean + 1/2
            /\ (2 * st.mean - 1) * n <= 2 * ProfileSum
            /\ 2 * ProfileSum < (2 * st.mean + 1) * n
            /\ AtSortedIndex(n \div 2, st.median)
            /\ AtSortedIndex(n \div 4, st.p25)
            \* stdDev - 1/2 <= sqrt(sq/n) < stdDev + 1/2
            /\ st.stdDev >= 0
            /\ st.stdDev > 0 => (2 * st.stdDev - 1) * (2 * st.stdDev - 1) * n <= 4 * sq
            /\ 4 * sq < (2 * st.stdDev + 1) * (2 * st.stdDev + 1) * n

\* the occupancies 10, 20, 30, 40 give median 30 (the upper middle), mean 25
\* and p25 20
C4_Witness ==
    /\ stats.done
    /\ Len(profile) = 4
    /\ ProfileValues = {10, 20, 30, 40}
    /\ stats.value.median = 30
    /\ stats.value.mean = 25
    /\ stats.value.p25 = 20
    /\ stats.value.stdDev = 11

\* C6: for a profile of 0 points or of exactly 1 point the recommendation
\* is the neutral default time, not one derived from the profile, and the
\* stability score is 0.
C6_DegenerateProfileNeutral ==
    (stats.done /\ stability.done /\ Len(profile) <= 1) =>
        /\ HoraDeOro(prediction, stats.value) = Str(Placeholder)
        /\ stability.value = 0

(***************************************************************************)
(* Properties of filteredData (model-checked under SpecAggregate)          *)
(***************************************************************************)
\* the entries of rawData of the selected day, compared without case
MatchingEntries ==
    {k \in 1..Len(rawData) : ToLowerCase(rawData[k].dayOfWeek) = ToLowerCase(selectedDay)}

EntriesAtHour(h) == {k \in MatchingEntries : rawData[k].hour = h}

RECURSIVE SumOccupancy(_)
SumOccupancy(ks) ==
    IF ks = {} THEN 0
    ELSE LET k == CHOOSE x \in ks : TRUE
         IN  rawData[k].occupancy + SumOccupancy(ks \ {k})

\* C5: the hourly profile has exactly one point per distinct hour observed
\* among the entries of the selected day (matched case-insensitively), none
\* for an unobserved hour, each occupancy the rounded mean of the hour's
\* entries, and the points strictly ascending by hour.
C5_HourlyProfile ==
    LET fd == filteredData
    IN  /\ {fd[k].hour : k \in 1..Len(fd)} = {rawData[k].hour : k \in MatchingEntries}
        /\ \A i, j \in 1..Len(fd) : i < j => fd[i].hour < fd[j].hour
        /\ \A k \in 1..Len(fd) :
               LET ks == EntriesAtHour(fd[k].hour)
                   n  == Cardinality(ks)
               IN  \* occupancy - 1/2 <= sum/n < occupancy + 1/2
                   /\ (2 * fd[k].occupancy - 1) * n <= 2 * SumOccupancy(ks)
                   /\ 2 * SumOccupancy(ks) < (2 * fd[k].occupancy + 1) * n

\* two entries of the selected day in one hour (3 and 10: the mean 6.5
\* rounds to 7), another hour of that day, and an entry of another day
C5_Witness ==
    /\ Len(filteredData) = 2
    /\ Cardinality(MatchingEntries) = 3
    /\ Len(rawData) = 4
    /\ rawData[1].hour > rawData[2].hour
    /\ \E k \in 1..2 : filteredData[k].occupancy = 7

(***************************************************************************)
(* Properties of the App component (model-checked under Spec)              *)
(***************************************************************************)
\* C7: the golden-hour card shows the AI result's goldenHour whenever an AI
\* result is stored, and otherwise the local golden hour (the placeholder
\* when there is no local summary); the panel shows the AI texts exactly
\* when an AI result is stored. The two results are never mixed.
C7_DisplaySelection ==
    /\ prediction # NoPrediction =>
           /\ HoraDeOro(prediction, localStats) = Field(prediction, "goldenHour")
           /\ PrediccionIA(prediction, isAnalyzing).shows = "ai"
    /\ prediction = NoPrediction =>
           /\ HoraDeOro(prediction, localStats) =
                  (IF localStats.null THEN Str(Placeholder) ELSE Str(localStats.golden))
           /\ PrediccionIA(prediction, isAnalyzing).shows # "ai"

\* C8: when a fetchData call fails (the fetch rejects, the status is not ok
\* or reading the body rejects) the connection error is set and rawData is
\* left exactly as it was.
C8_FailedFetchKeepsData ==
    [][\A c \in 1..Len(fetchCalls) :
          (fetchCalls[c].outcome = "pending" /\ fetchCalls'[c].outcome = "failed")
              => (rawData' = rawData /\ error' = ConnectError)]_vars

\* a call failed after an earlier call had stored a dataset, and the dataset
\* is still there under the error
C8_Witness ==
    /\ error = ConnectError
    /\ rawData # <<>>
    /\ \E c \in 1..Len(fetchCalls) :
           /\ fetchCalls[c].outcome = "failed"
           /\ \E b \in 1..(c - 1) : fetchCalls[b].outcome = "stored"

\* the result schema of analyzeGymData (geminiService.ts 40-62, types.ts)
SchemaValid(p) ==
    /\ DOMAIN p = {"kind", "recommendation", "goldenHour", "analysis", "statistics"}
    /\ p.recommendation.t = "string"
    /\ p.goldenHour.t = "string"
    /\ p.analysis.t = "string"
    /\ DOMAIN p.statistics = {"mean", "median", "percentile25", "stdDev",
                              "max", "min", "bestHour", "trend"}
    /\ \A f \in {"mean", "median", "percentile25", "stdDev", "max", "min"} :
           p.statistics[f].t = "number"
    /\ p.statistics.bestHour.t = "string"
    /\ p.statistics.trend.t = "string"

\* C9: the stored prediction is only ever replaced by a parsed response that
\* has every field of the result schema with the right type.
C9_PredictionOnlySchemaValid ==
    [][prediction' # prediction => SchemaValid(prediction')]_vars

\* C10: at most one fetchData call is between its start and its completion.
C10_OneCycleInFlight ==
    Cardinality({c \in 1..Len(fetchCalls) : fetchCalls[c].pc # "done"}) <= 1

(***************************************************************************)
(* Properties of runAiAnalysis and its button (model-checked under Spec)   *)
(***************************************************************************)
\* the analyzeGymData calls that have started and not yet settled
PendingAnalyses ==
    {c \in 1..Len(aiCalls) : aiCalls[c].pc # "done"}

\* C11: at most one analyzeGymData call is outstanding; a call is outstanding
\* exactly while isAnalyzing is set; and a step that starts a call is taken
\* only with isAnalyzing clear, no call outstanding and rawData non-empty.
C11_SingleAnalysisOutstanding ==
    [][/\ Cardinality(PendingAnalyses') <= 1
       /\ isAnalyzing' <=> PendingAnalyses' # {}
       /\ Len(aiCalls') > Len(aiCalls) =>
              /\ ~isAnalyzing
              /\ PendingAnalyses = {}
              /\ Len(rawData) > 0]_vars

\* a second analysis has been started after the first one settled
C11_Witness ==
    /\ Len(aiCalls) = 2
    /\ aiCalls[1].pc = "done"
    /\ aiCalls[2].pc = "awaitModel"
    /\ isAnalyzing

(***************************************************************************)
(* Properties of fetchData's stored dataset (model-checked under Spec)     *)
(***************************************************************************)
\* the entries parsed from the text that fetchData call c received
ParsedByCycle(c) ==
    ParsedBody[fetchCalls[c].body[1]]

\* C12: every step in which a fetchData call whose fetch succeeded finishes
\* reading and parsing its text leaves rawData equal to exactly the entries
\* parsed from that text, also when the text yields no valid entry.
C12_StoredEqualsParsed ==
    [][\A c \in 1..Len(fetchCalls) :
           (fetchCalls[c].pc = "awaitText" /\ fetchCalls'[c].pc = "done"
                /\ fetchCalls'[c].outcome \in {"stored", "empty"})
           => rawData' = ParsedByCycle(c)']_vars

(***************************************************************************)
(* Properties of the stored prediction and the day selector                *)
(* (model-checked under Spec)                                              *)
(***************************************************************************)
\* the analyzeGymData calls whose result was stored with setPrediction
StoredAnalyses ==
    {c \in 1..Len(aiCalls) : aiCalls[c].outcome = "stored"}

\* the call that produced the stored prediction: calls settle in the order
\* they start (one is outstanding at a time), so it is the latest stored one
ProducingAnalysis ==
    CHOOSE c \in StoredAnalyses : \A d \in StoredAnalyses : d <= c

\* C13: whenever a prediction is stored and the main screen is shown, the
\* day passed to the analyzeGymData call that produced it is selectedDay.
C13_PredictionForSelectedDay ==
    (error = NULL /\ prediction # NoPrediction)
        => aiCalls[ProducingAnalysis].day = selectedDay

(***************************************************************************)
(* Properties of overlapping fetchData calls (model-checked under Spec)    *)
(***************************************************************************)
\* every fetchData call started so far has completed and stored its entries
AllCyclesStored ==
    /\ Len(fetchCalls) > 0
    /\ \A c \in 1..Len(fetchCalls) :
           fetchCalls[c].pc = "done" /\ fetchCalls[c].outcome = "stored"

\* C14: once every fetchData call has completed with non-empty data, rawData
\* is the entries parsed by the call that was started last (fetchCalls is in
\* start order), whatever the order in which the responses arrived.
C14_LastStartedCycleWins ==
    AllCyclesStored => rawData = ParsedByCycle(Len(fetchCalls))

(***************************************************************************)
(* Properties of runAiAnalysis's completion (model-checked under           *)
(* SpecSettling)                                                           *)
(***************************************************************************)
\* C15: every step in which an analyzeGymData call settles (resolved with a
\* result, rejected, or resolved with an empty or unparsable text) ends with
\* isAnalyzing false; with no call outstanding the busy flag is clear; and,
\* the external call settling, a set busy flag is eventually cleared.
C15_SettledAnalysisClearsBusy ==
    /\ [][/\ \A c \in 1..Len(aiCalls) :
                 (aiCalls[c].pc = "awaitModel" /\ aiCalls'[c].pc = "done")
                 => ~isAnalyzing'
          /\ (\A c \in 1..Len(aiCalls') : aiCalls'[c].pc = "done")
                 => ~isAnalyzing']_vars
    /\ (isAnalyzing ~> ~isAnalyzing)

\* one analysis has failed and a later one has stored its result
C15_Witness ==
    /\ Len(aiCalls) = 2
    /\ aiCalls[1].outcome = "failed"
    /\ aiCalls[2].outcome = "stored"
    /\ alerts = 1
    /\ ~isAnalyzing

====
